---- MODULE Spec2Model ----
(***************************************************************************)
(* Model of the nishiogi repository agent (src/src/agent.rs) together with *)
(* the two probe commands it runs (src/src/tree.rs, src/src/show_file.rs). *)
(*                                                                         *)
(* A text is a sequence of tokens.  A token is either one character or an  *)
(* ASCII word that the code never looks inside (a path, a keyword).        *)
(***************************************************************************)
EXTENDS Integers, Sequences, FiniteSets, TLC

\* ------------------------------------------------------------------ bounds
\* Planning steps one question may perform in the model (the code has no bound).
MaxCycles == 4
\* Calls of process_question on the one Agent value.
MaxQuestions == 2

\* The iteration ceiling of the specification (spec.md 4.5, "default 3").
MAX_ITERATIONS == 3

\* Length, in bytes, of the logged preview of a command output.
PREVIEW_LEN == 100

\* ------------------------------------------------------- text primitives
WhiteSpace == {" ", "\n", "\t", "\r"}

\* s[from..] (1-based), the empty text when from is past the end.
Drop(s, n) == SubSeq(s, n + 1, Len(s))

\* str::starts_with
StartsWith(s, pre) == Len(s) >= Len(pre) /\ SubSeq(s, 1, Len(pre)) = pre

\* str::contains
Contains(s, pat) ==
    \E i \in 0..(Len(s) - Len(pat)) : SubSeq(s, i + 1, i + Len(pat)) = pat

\* str::strip_prefix: the remainder, or none when s does not start with pre.
strip_prefix(s, pre) ==
    IF StartsWith(s, pre) THEN [some |-> TRUE, val |-> Drop(s, Len(pre))]
                          ELSE [some |-> FALSE, val |-> <<>>]

RECURSIVE TrimStart(_)
TrimStart(s) ==
    IF s # <<>> /\ Head(s) \in WhiteSpace THEN TrimStart(Tail(s)) ELSE s

RECURSIVE TrimEnd(_)
TrimEnd(s) ==
    IF s # <<>> /\ s[Len(s)] \in WhiteSpace
    THEN TrimEnd(SubSeq(s, 1, Len(s) - 1)) ELSE s

\* str::trim
Trim(s) == TrimEnd(TrimStart(s))

\* str::split(sep) for a one-token separator: always at least one part.
RECURSIVE SplitAcc(_, _, _)
SplitAcc(s, sep, cur) ==
    IF s = <<>> THEN <<cur>>
    ELSE IF Head(s) = sep THEN <<cur>> \o SplitAcc(Tail(s), sep, <<>>)
    ELSE SplitAcc(Tail(s), sep, Append(cur, Head(s)))

Split(s, sep) == SplitAcc(s, sep, <<>>)

\* [&str]::join(sep)
RECURSIVE Join(_, _)
Join(parts, sep) ==
    IF parts = <<>> THEN <<>>
    ELSE IF Len(parts) = 1 THEN parts[1]
    ELSE parts[1] \o <<sep>> \o Join(Tail(parts), sep)

\* One line of str::lines with its optional trailing "\r" removed.
StripCr(l) ==
    IF l # <<>> /\ l[Len(l)] = "\r" THEN SubSeq(l, 1, Len(l) - 1) ELSE l

\* str::lines: split at "\n"; a final empty piece is not a line.
Lines(s) ==
    LET raw  == Split(s, "\n")
        kept == IF raw[Len(raw)] = <<>> THEN SubSeq(raw, 1, Len(raw) - 1) ELSE raw
    IN  [i \in 1..Len(kept) |-> StripCr(kept[i])]

\* Tokens standing for one non-ASCII character each (module text is ASCII):
\* KANA_A is U+3042, BOX_T U+251C, BOX_L U+2514, BOX_H U+2500, BOX_V U+2502,
\* FU is U+4E0D; KOMANDO, TEKISETSU and JUUBUN are the words U+30B3 U+30DE
\* U+30F3 U+30C9, U+9069 U+5207 and U+5341 U+5206, which the code only
\* handles as a whole.
MultiByteTokens ==
    {"KANA_A", "BOX_T", "BOX_L", "BOX_H", "BOX_V", "FU", "KOMANDO",
     "TEKISETSU", "JUUBUN"}

\* UTF-8 length of one token: a box-drawing or kana character takes three
\* bytes, an ASCII word takes one byte per letter.
TokBytes(t) ==
    CASE t \in {"KANA_A", "BOX_T", "BOX_L", "BOX_H", "BOX_V", "FU"} -> 3
      [] t \in {"TEKISETSU", "JUUBUN"} -> 6
      [] t = "KOMANDO" -> 12
      [] t = "main.rs"  -> 7
      [] t = "wide.txt" -> 8
      [] t = "locked"   -> 6
      [] t = "fn main() {}" -> 12
      [] OTHER -> 1

MultiByte(t) == t \in MultiByteTokens

RECURSIVE ByteLen(_)
ByteLen(s) == IF s = <<>> THEN 0 ELSE TokBytes(Head(s)) + ByteLen(Tail(s))

\* str::is_char_boundary(n): n is the end of the text, the start of a token,
\* or any position inside an ASCII word.
RECURSIVE is_char_boundary(_, _)
is_char_boundary(s, n) ==
    IF n = 0 THEN TRUE
    ELSE IF s = <<>> THEN FALSE
    ELSE IF n < TokBytes(Head(s)) THEN ~MultiByte(Head(s))
    ELSE is_char_boundary(Tail(s), n - TokBytes(Head(s)))

Min(a, b) == IF a < b THEN a ELSE b

\* ----------------------------------------------------------- option type
None == [some |-> FALSE, val |-> <<>>]
Some(t) == [some |-> TRUE, val |-> t]
\* Option<String>::unwrap_or_default
unwrap_or_default(o) == IF o.some THEN o.val ELSE <<>>

\* str::to_lowercase, token by token: only ASCII capitals have a lower case.
LowerTok(t) == CASE t = "OK" -> "ok" [] t = "NG" -> "ng" [] OTHER -> t
to_lowercase(s) == [i \in DOMAIN s |-> LowerTok(s[i])]

\* ------------------------------------------------------------ file system
\* A path is a text of names separated by "/".  A path that starts with "/"
\* is absolute; any other is relative to the directory the process runs in,
\* and the empty path is PathBuf::default().  fs maps every existing path to
\* its node; a directory's entries are what fs::read_dir yields for it, in
\* the order it yields them.
VARIABLES
    fs,               \* the files and directories the process can reach
    walk,             \* the latest direct call of a tree.rs function and its return
    frames            \* the calls of generate_tree_with_patterns in progress

Dir(entries) ==
    [kind |-> "dir", readable |-> TRUE, content |-> <<>>, entries |-> entries]
File(readable, content) ==
    [kind |-> "file", readable |-> readable, content |-> content, entries |-> <<>>]

\* The directory the agent's commands are run in: src/ holds three files, one
\* of which cannot be read; every other path is missing.
AgentFs ==
    (<<"src">> :> Dir(<<<<"wide.txt">>, <<"locked">>, <<"main.rs">>>>))
    @@ (<<"src", "/", "locked">> :> File(FALSE, <<>>))
    @@ (<<"src", "/", "main.rs">> :> File(TRUE, <<"fn main() {}">>))
    @@ (<<"src", "/", "wide.txt">> :> File(TRUE, [i \in 1..34 |-> "KANA_A"]))

\* Path::join with a relative name
join(path, name) ==
    IF path = <<>> THEN name
    ELSE IF path = <<"/">> THEN path \o name
    ELSE path \o <<"/">> \o name

\* Path::parent is None for the empty path and for "/": PathBuf::pop fails.
has_parent(path) == path \notin {<<>>, <<"/">>}

\* Path::parent of a path that has one: the path without its last name.
parent(path) ==
    LET slashes == {i \in 1..Len(path) : path[i] = "/"}
        last    == IF slashes = {} THEN 0
                   ELSE CHOOSE i \in slashes : \A k \in slashes : k <= i
    IN  IF last = 1 THEN <<"/">> ELSE SubSeq(path, 1, last - 1)

\* Path::strip_prefix, whole names only.
path_strip_prefix(path, base) ==
    IF base = <<>> THEN [some |-> TRUE, val |-> path]
    ELSE IF path = base THEN [some |-> TRUE, val |-> <<>>]
    ELSE IF base = <<"/">>
         THEN [some |-> StartsWith(path, base),
               val  |-> IF StartsWith(path, base) THEN Tail(path) ELSE <<>>]
    ELSE IF StartsWith(path, base \o <<"/">>)
         THEN [some |-> TRUE, val |-> Drop(path, Len(base) + 1)]
         ELSE [some |-> FALSE, val |-> <<>>]

\* Path::exists
exists(path) == path \in DOMAIN fs
\* Path::is_dir
is_dir(path) == exists(path) /\ fs[path].kind = "dir"

NoError == [kind |-> "none", detail |-> <<>>]
Ok(out) == [tag |-> "ok", out |-> out, error |-> NoError]
Err(kind, detail) == [tag |-> "err", out |-> <<>>, error |-> [kind |-> kind, detail |-> detail]]
\* A panic unwinds out of the caller: nothing is returned.
Panic(msg) == [tag |-> "panic", out |-> <<>>, error |-> [kind |-> "panic", detail |-> msg]]

\* Variant: no existence test, a missing file is whatever the read reports.
read_file_content_unchecked(path) ==
    IF is_dir(path) THEN Err("IsDirectory", <<>>)
    ELSE IF ~exists(path) \/ ~fs[path].readable THEN Err("Io", <<>>)
    ELSE Ok(fs[path].content)

\* show_file.rs read_file_content: existence is tested before the kind.
read_file_content(path) ==
    IF ~exists(path) THEN Err("NotFound", <<>>)
    ELSE IF is_dir(path) THEN Err("IsDirectory", <<>>)
    ELSE IF ~fs[path].readable THEN Err("Io", <<>>)
    ELSE Ok(fs[path].content)

\* ------------------------------------------------------------------ regex
\* A Regex is its source text, one character per token, in the syntax the
\* patterns of this repository use: "^" first, "$" last, ".", an escaped
\* character, a literal character, each of the last three optionally
\* followed by "*".
RECURSIVE regex_items(_, _)
regex_items(src, first) ==
    IF src = <<>> THEN <<>>
    ELSE IF first /\ Head(src) = "^"
    THEN <<[k |-> "start", c |-> "^", star |-> FALSE]>> \o regex_items(Tail(src), FALSE)
    ELSE IF Len(src) = 1 /\ Head(src) = "$"
    THEN <<[k |-> "end", c |-> "$", star |-> FALSE]>>
    ELSE LET escaped == Head(src) = "\\" /\ Len(src) >= 2
             used    == IF escaped THEN 2 ELSE 1
             star    == Len(src) > used /\ src[used + 1] = "*"
             atom    == IF escaped THEN [k |-> "lit", c |-> src[2], star |-> star]
                        ELSE IF Head(src) = "." THEN [k |-> "any", c |-> ".", star |-> star]
                        ELSE [k |-> "lit", c |-> Head(src), star |-> star]
         IN  <<atom>> \o regex_items(Drop(src, used + (IF star THEN 1 ELSE 0)), FALSE)

atom_matches(item, ch) == item.k = "any" \/ (item.k = "lit" /\ item.c = ch)

\* The items match text from position j on.
RECURSIVE match_here(_, _, _)
match_here(items, text, j) ==
    IF items = <<>> THEN TRUE
    ELSE LET item == Head(items)
         IN  IF item.k = "start" THEN j = 1 /\ match_here(Tail(items), text, j)
             ELSE IF item.k = "end"
             THEN j = Len(text) + 1 /\ match_here(Tail(items), text, j)
             ELSE IF item.star
             THEN \E n \in 0..(Len(text) - j + 1) :
                      /\ \A i \in j..(j + n - 1) : atom_matches(item, text[i])
                      /\ match_here(Tail(items), text, j + n)
             ELSE /\ j <= Len(text)
                  /\ atom_matches(item, text[j])
                  /\ match_here(Tail(items), text, j + 1)

\* Regex::is_match: the expression matches somewhere in the text.
is_match(re, text) ==
    \E j \in 1..(Len(text) + 1) : match_here(regex_items(re, TRUE), text, j)

\* The letters that may follow a backslash in a regex: character classes,
\* assertions and control characters.  The expressions of this model hold
\* none of them.
EscapeLetters ==
    {"a", "f", "t", "n", "r", "v", "x", "u", "U", "d", "D", "s", "S", "w", "W",
     "b", "B", "A", "z", "p", "P"}

\* The letters that occur in the model's patterns and names.
Letters ==
    {"a", "b", "d", "e", "g", "i", "l", "n", "o", "r", "t", "u", "x", "B", "D", "S"}

\* Regex::new(src): the compiled expression, or none for a backslash followed
\* by a letter that is no escape (the parser then reports an unrecognized
\* escape sequence).
RECURSIVE regex_parses(_)
regex_parses(src) ==
    IF src = <<>> THEN TRUE
    ELSE IF Head(src) = "\\"
    THEN /\ Len(src) >= 2
         /\ src[2] \notin Letters \ EscapeLetters
         /\ regex_parses(Drop(src, 2))
    ELSE regex_parses(Tail(src))

regex_new(src) == IF regex_parses(src) THEN Some(src) ELSE None

\* -------------------------------------------------------------- gitignore
RegexSpecial == {".", "+", "(", ")", "|", "[", "]", "{", "}", "^", "$"}

\* The loop over pattern.chars() of parse_gitignore.
RECURSIVE pattern_str(_)
pattern_str(pattern) ==
    IF pattern = <<>> THEN <<>>
    ELSE LET c == Head(pattern)
         IN  (IF c = "*" THEN <<".", "*">>
              ELSE IF c = "?" THEN <<".">>
              ELSE IF c \in RegexSpecial THEN <<"\\", c>>
              ELSE <<c>>) \o pattern_str(Tail(pattern))

\* The regex parse_gitignore makes of one trimmed line that is a pattern.
gitignore_regex(trimmed) ==
    LET unnegated == IF StartsWith(trimmed, <<"!">>) THEN Tail(trimmed) ELSE trimmed
        pattern   == IF unnegated # <<>> /\ unnegated[Len(unnegated)] = "/"
                     THEN SubSeq(unnegated, 1, Len(unnegated) - 1) ELSE unnegated
    IN  <<"^">> \o pattern_str(pattern) \o <<"$">>

\* The loop over reader.lines() of parse_gitignore: a pattern whose regex
\* does not compile is reported on stderr and left out.
RECURSIVE gitignore_lines(_)
gitignore_lines(lines) ==
    IF lines = <<>> THEN <<>>
    ELSE LET trimmed == Trim(Head(lines))
             compiled == regex_new(gitignore_regex(trimmed))
         IN  (IF trimmed = <<>> \/ StartsWith(trimmed, <<"#">>) THEN <<>>
              ELSE IF compiled.some THEN <<compiled.val>>
              ELSE <<>>) \o gitignore_lines(Tail(lines))

\* tree.rs parse_gitignore: a file that cannot be opened or read is an error.
parse_gitignore(gitignore_path) ==
    IF ~exists(gitignore_path) \/ is_dir(gitignore_path) \/ ~fs[gitignore_path].readable
    THEN Err("Io", <<>>)
    ELSE Ok(gitignore_lines(Lines(fs[gitignore_path].content)))

\* The names ".git" and ".gitignore".
DotGit == <<".", "g", "i", "t">>
DotGitignore == <<".", "g", "i", "t", "i", "g", "n", "o", "r", "e">>

\* tree.rs find_repo_root: the nearest of the path and its ancestors that
\* holds a .git directory or a .gitignore; pop fails on the empty path.
RECURSIVE find_repo_root(_)
find_repo_root(current) ==
    IF is_dir(join(current, DotGit)) \/ exists(join(current, DotGitignore))
    THEN Some(current)
    ELSE IF ~has_parent(current) THEN None
    ELSE find_repo_root(parent(current))

\* tree.rs find_gitignore_patterns
find_gitignore_patterns(start_path) ==
    LET repo_root      == unwrap_or_default(find_repo_root(start_path))
        root_gitignore == join(repo_root, DotGitignore)
    IN  IF exists(root_gitignore) THEN parse_gitignore(root_gitignore) ELSE Ok(<<>>)

\* ------------------------------------------------------------ tree walker
\* The UTF-8 bytes of the tokens that occur in file names.
Utf8(t) ==
    CASE t = "."        -> <<46>>
      [] t = "B"        -> <<66>>
      [] t = "a"        -> <<97>>
      [] t = "b"        -> <<98>>
      [] t = "e"        -> <<101>>
      [] t = "g"        -> <<103>>
      [] t = "i"        -> <<105>>
      [] t = "n"        -> <<110>>
      [] t = "o"        -> <<111>>
      [] t = "r"        -> <<114>>
      [] t = "t"        -> <<116>>
      [] t = "locked"   -> <<108, 111, 99, 107, 101, 100>>
      [] t = "main.rs"  -> <<109, 97, 105, 110, 46, 114, 115>>
      [] t = "wide.txt" -> <<119, 105, 100, 101, 46, 116, 120, 116>>

\* The bytes of a file name, the key entries are sorted by.
RECURSIVE file_name_bytes(_)
file_name_bytes(name) ==
    IF name = <<>> THEN <<>> ELSE Utf8(Head(name)) \o file_name_bytes(Tail(name))

\* Ord for byte strings: a < b.
RECURSIVE bytes_less(_, _)
bytes_less(a, b) ==
    IF b = <<>> THEN FALSE
    ELSE IF a = <<>> THEN TRUE
    ELSE IF Head(a) # Head(b) THEN Head(a) < Head(b)
    ELSE bytes_less(Tail(a), Tail(b))

\* One step of the stable sort: name goes after every entry not above it.
RECURSIVE insert_sorted(_, _)
insert_sorted(sorted, name) ==
    IF sorted = <<>> THEN <<name>>
    ELSE IF bytes_less(file_name_bytes(name), file_name_bytes(Head(sorted)))
         THEN <<name>> \o sorted
         ELSE <<Head(sorted)>> \o insert_sorted(Tail(sorted), name)

\* Variant: the entries stay in read_dir order.
sort_by_key_unsorted(entries) == entries

\* entries.sort_by_key(DirEntry::file_name)
RECURSIVE sort_by_key(_)
sort_by_key(entries) ==
    IF entries = <<>> THEN <<>>
    ELSE insert_sorted(sort_by_key(SubSeq(entries, 1, Len(entries) - 1)),
                       entries[Len(entries)])

\* fs::read_dir(path): the names of the entries, or none when it fails.
read_dir(path) ==
    IF is_dir(path) /\ fs[path].readable THEN Some(fs[path].entries) ELSE None

\* What read_dir yields in place of an entry it failed to read.
EntryError == <<"EIO">>

\* entries.filter_map(Result::ok)
RECURSIVE filter_map_ok(_)
filter_map_ok(entries) ==
    IF entries = <<>> THEN <<>>
    ELSE (IF Head(entries) = EntryError THEN <<>> ELSE <<Head(entries)>>)
         \o filter_map_ok(Tail(entries))

\* Variant: the rules are applied to files only, a directory always stays.
entry_kept_files_only(path, ignore, file_name) ==
    \/ is_dir(join(path, file_name))
    \/ ~\E i \in 1..Len(ignore) : is_match(ignore[i], file_name)

\* The filter closure: the entry stays when no regex matches its file name
\* or its path with the listed directory stripped.
entry_kept(path, ignore, file_name) ==
    LET entry_path == join(path, file_name)
        stripped   == path_strip_prefix(entry_path, path)
        rel_path   == IF stripped.some THEN stripped.val ELSE entry_path
    IN  ~\E i \in 1..Len(ignore) :
            is_match(ignore[i], file_name) \/ is_match(ignore[i], rel_path)

RECURSIVE filter_entries(_, _, _)
filter_entries(path, ignore, entries) ==
    IF entries = <<>> THEN <<>>
    ELSE (IF entry_kept(path, ignore, Head(entries)) THEN <<Head(entries)>> ELSE <<>>)
         \o filter_entries(path, ignore, Tail(entries))

\* Variant: the two connectors exchanged.
connector_swapped(is_last) ==
    IF is_last THEN <<"BOX_T", "BOX_H", "BOX_H", " ">>
               ELSE <<"BOX_L", "BOX_H", "BOX_H", " ">>

connector(is_last) ==
    IF is_last THEN <<"BOX_L", "BOX_H", "BOX_H", " ">>
               ELSE <<"BOX_T", "BOX_H", "BOX_H", " ">>

new_prefix(prefix, is_last) ==
    IF is_last THEN prefix \o <<" ", " ", " ", " ">>
               ELSE prefix \o <<"BOX_V", " ", " ", " ">>

\* depth.unwrap_or(usize::MAX) > 0
may_descend(depth) == IF depth.some THEN depth.val > 0 ELSE TRUE

\* Variant: the limit is handed down unchanged.
new_depth_same(depth) == depth

\* Variant: below an unlimited walk the limit is one more level.
new_depth_finite(depth) == IF depth.some THEN Some(depth.val - 1) ELSE Some(1)

\* depth.map(|d| d - 1)
new_depth(depth) == IF depth.some THEN Some(depth.val - 1) ELSE None

\* tree.rs generate_tree_with_patterns, and its loop over the sorted entries
\* from index i on.  A read_dir failure panics at any level.
RECURSIVE generate_tree_with_patterns(_, _, _, _)
RECURSIVE tree_entries(_, _, _, _, _, _)
generate_tree_with_patterns(path, prefix, ignore, depth) ==
    IF depth = Some(0) THEN Ok(<<>>)
    ELSE IF ~read_dir(path).some THEN Panic(<<"Failed to read directory">>)
    ELSE tree_entries(path, prefix, ignore, depth,
                      sort_by_key(filter_entries(path, ignore,
                                                 filter_map_ok(read_dir(path).val))), 1)

tree_entries(path, prefix, ignore, depth, entries, i) ==
    IF i > Len(entries) THEN Ok(<<>>)
    ELSE LET file_name == entries[i]
             is_last   == i = Len(entries)
             line      == prefix \o connector(is_last) \o file_name \o <<"\n">>
             new_path  == join(path, file_name)
             nested    == IF is_dir(new_path) /\ may_descend(depth)
                          THEN generate_tree_with_patterns(
                                   new_path, new_prefix(prefix, is_last), ignore,
                                   new_depth(depth))
                          ELSE Ok(<<>>)
             rest      == IF nested.tag = "panic" THEN nested
                          ELSE tree_entries(path, prefix, ignore, depth, entries, i + 1)
         IN  IF rest.tag = "panic" THEN rest
             ELSE Ok(line \o nested.out \o rest.out)

\* tree.rs generate_tree: without an explicit rule set the rules come from
\* the .gitignore of the repository root, an error standing for no rules.
generate_tree(path, prefix, ignore, depth) ==
    LET found    == find_gitignore_patterns(path)
        patterns == IF ignore.some THEN ignore.val
                    ELSE IF found.tag = "ok" THEN found.out ELSE <<>>
    IN  generate_tree_with_patterns(path, prefix, patterns, depth)

\* ------------------------------------------------------------------ agent
VARIABLES
    context,          \* Agent.context: the AgentContext of the question
    status,           \* "idle", "running", or how process_question ended
    result,           \* what process_question returned: [val, error]
    iteration_count,  \* Planning steps performed for the current question
    calls,            \* capability calls made for the current question
    commands_run,     \* commands dispatched to tree or show_file for the question
    questions_asked,  \* calls of process_question so far
    last_request,     \* the user message of the latest capability call
    last_response,    \* the response that call received
    answer_produced   \* the text the latest Answering step received, if any

vars == <<fs, walk, frames, context, status, result, iteration_count, calls, commands_run,
          questions_asked, last_request, last_response, answer_produced>>

AgentStep ==
    {"UnderstandQuestion", "PlanExecution", "ExecuteCommands", "CreateAnswer",
     "ReviewAnswer", "Done"}

\* AgentContext::default()
AgentContextDefault ==
    [question        |-> <<>>,
     plan            |-> <<>>,
     command_results |-> <<>>,
     current_answer  |-> None,
     review_result   |-> None,
     current_step    |-> "UnderstandQuestion"]

\* A capability response: the call failed, or it carries zero or more choices.
CallError == [err |-> TRUE, choices |-> <<>>]
Choices(cs) == [err |-> FALSE, choices |-> cs]
NoResponse == [step |-> "none", err |-> FALSE, choices |-> <<>>]
NoRequest == [step |-> "none", content |-> <<>>]

\* The outcome of one step function: Result<_, AgentError> and the context
\* the step leaves behind (passed is review_answer's Ok value).
StepOk(ctx) == [tag |-> "ok", error |-> NoError, ctx |-> ctx, passed |-> FALSE, started |-> 0]
StepErr(ctx, kind, detail) ==
    [tag |-> "err", error |-> [kind |-> kind, detail |-> detail], ctx |-> ctx,
     passed |-> FALSE, started |-> 0]
\* client.chat_completion(..).await? on a failed call
CopilotError(ctx) == StepErr(ctx, "CopilotError", <<>>)

\* ---- understand_question
understand_request(ctx) == <<"PROMPT_UNDERSTAND">> \o ctx.question

\* Variant: a response without a choice is treated as a failure.
understand_question_strict(ctx, resp) ==
    IF resp.err THEN CopilotError(ctx)
    ELSE IF resp.choices = <<>>
         THEN StepErr(ctx, "Other", <<"Failed to get understanding response">>)
         ELSE StepOk(ctx)

understand_question(ctx, resp) ==
    IF resp.err THEN CopilotError(ctx) ELSE StepOk(ctx)

\* ---- plan_execution
\* Variant: the previous review is never sent.
plan_request_without_review(ctx) == <<"PROMPT_PLAN">> \o ctx.question

plan_request(ctx) ==
    LET previous_context ==
            IF ctx.review_result.some
            THEN <<"PROMPT_PREVIOUS_REVIEW">> \o ctx.review_result.val \o <<"\n", "\n">>
            ELSE <<>>
    IN  previous_context \o <<"PROMPT_PLAN">> \o ctx.question

is_command_line(line) ==
    Contains(line, <<"KOMANDO", ":">>) \/ Contains(line, <<"command", ":">>)

command_of_line(line) ==
    LET parts == Split(line, ":")
    IN  IF Len(parts) > 1 THEN Trim(Join(Tail(parts), ":")) ELSE Trim(line)

RECURSIVE extract_commands(_)
extract_commands(lines) ==
    IF lines = <<>> THEN <<>>
    ELSE (IF is_command_line(Head(lines)) THEN <<command_of_line(Head(lines))>> ELSE <<>>)
         \o extract_commands(Tail(lines))

\* Variant: no fallback to the whole response.
plan_of_content_no_fallback(content) == extract_commands(Lines(content))

\* The plan taken from the first choice's content.
plan_of_content(content) ==
    LET extracted == extract_commands(Lines(content))
    IN  IF extracted = <<>> THEN <<Trim(content)>> ELSE extracted

\* Variant: a failed call is ignored and the old plan kept.
plan_execution_swallow(ctx, resp) ==
    IF ~resp.err /\ resp.choices # <<>>
    THEN StepOk([ctx EXCEPT !.plan = plan_of_content(resp.choices[1])])
    ELSE StepOk(ctx)

plan_execution(ctx, resp) ==
    IF resp.err THEN CopilotError(ctx)
    ELSE IF resp.choices # <<>>
         THEN StepOk([ctx EXCEPT !.plan = plan_of_content(resp.choices[1])])
         ELSE StepOk(ctx)

\* ---- execute_commands
\* generate_tree(Path::new(path), "", None, None)
run_tree_command(path) == generate_tree(path, <<>>, None, None)

\* Err(e.into()): each FileReadError variant stays its own error kind.
run_show_file_command(path) == read_file_content(path)

\* The command is one of the two the loop dispatches.
recognised(command) ==
    StartsWith(command, <<"tree", " ">>) \/ StartsWith(command, <<"show_file", " ">>)

\* Variant: the command word alone is enough, the path is what follows it.
run_command_by_word(command) ==
    IF StartsWith(command, <<"tree">>)
    THEN run_tree_command(TrimStart(Drop(command, 1)))
    ELSE IF StartsWith(command, <<"show_file">>)
    THEN run_show_file_command(TrimStart(Drop(command, 1)))
    ELSE Err("CommandError", <<"Unknown command: ">> \o command)

\* One command of the plan: its output, its error, or a panic.
run_command(command) ==
    IF StartsWith(command, <<"tree", " ">>)
    THEN run_tree_command(strip_prefix(command, <<"tree", " ">>).val)
    ELSE IF StartsWith(command, <<"show_file", " ">>)
    THEN run_show_file_command(strip_prefix(command, <<"show_file", " ">>).val)
    ELSE Err("CommandError", <<"Unknown command: ">> \o command)

\* &cmd_result[..min(100, cmd_result.len())] panics off a char boundary.
preview_ok(cmd_result) ==
    is_char_boundary(cmd_result, Min(PREVIEW_LEN, ByteLen(cmd_result)))

\* Variant: the pair is inserted at the front.
push_result_front(results, command, cmd_result) ==
    <<<<command, cmd_result>>>> \o results

\* command_results.push((command.clone(), cmd_result))
push_result(results, command, cmd_result) ==
    Append(results, <<command, cmd_result>>)

\* The for loop over the plan from index i on, results being the pairs
\* pushed so far.
RECURSIVE execute_from(_, _, _)
execute_from(ctx, i, results) ==
    IF i > Len(ctx.plan)
    THEN [StepOk([ctx EXCEPT !.command_results = results]) EXCEPT !.started = i - 1]
    ELSE LET command == ctx.plan[i]
             r       == run_command(command)
             left    == [ctx EXCEPT !.command_results = results]
         IN  IF r.tag = "err"
             THEN [StepErr(left, r.error.kind, r.error.detail)
                     EXCEPT !.started = IF recognised(command) THEN i ELSE i - 1]
             ELSE IF r.tag = "panic" \/ ~preview_ok(r.out)
             THEN [tag |-> "panic", error |-> [kind |-> "panic", detail |-> <<>>],
                   ctx |-> left, passed |-> FALSE, started |-> i]
             ELSE execute_from(ctx, i + 1, push_result(results, command, r.out))

\* Variant: the loop pushes onto the results of the iteration before.
execute_commands_keep(ctx) == execute_from(ctx, 1, ctx.command_results)

\* command_results.clear(), then the loop.
execute_commands(ctx) == execute_from(ctx, 1, <<>>)

\* ---- create_answer
RECURSIVE command_results_text(_)
command_results_text(results) ==
    IF results = <<>> THEN <<>>
    ELSE <<"HEADING">> \o Head(results)[1] \o <<"FENCE">> \o Head(results)[2] \o <<"FENCE">>
         \o command_results_text(Tail(results))

answer_request(ctx) ==
    <<"PROMPT_QUESTION">> \o ctx.question \o <<"PROMPT_RESULTS">>
        \o command_results_text(ctx.command_results)

\* Variant: a response without a choice leaves the answer as it was.
create_answer_lenient(ctx, resp) ==
    IF resp.err THEN CopilotError(ctx)
    ELSE IF resp.choices # <<>>
         THEN StepOk([ctx EXCEPT !.current_answer = Some(resp.choices[1])])
         ELSE StepOk(ctx)

create_answer(ctx, resp) ==
    IF resp.err THEN CopilotError(ctx)
    ELSE IF resp.choices # <<>>
         THEN StepOk([ctx EXCEPT !.current_answer = Some(resp.choices[1])])
         ELSE StepErr(ctx, "Other", <<"Failed to get answer response">>)

\* ---- review_answer
review_request(ctx) ==
    <<"PROMPT_QUESTION">> \o ctx.question \o <<"PROMPT_ANSWER">> \o ctx.current_answer.val

\* Variant: only the affirmative token is looked for.
review_passed_affirmative_only(review) ==
    Contains(to_lowercase(review), <<"TEKISETSU">>)

review_passed(review) ==
    /\ Contains(to_lowercase(review), <<"TEKISETSU">>)
    /\ ~Contains(to_lowercase(review), <<"FU", "JUUBUN">>)
    /\ ~Contains(to_lowercase(review), <<"FU", "TEKISETSU">>)

review_answer(ctx, resp) ==
    IF ~ctx.current_answer.some THEN StepErr(ctx, "Other", <<"No answer to review">>)
    ELSE IF resp.err THEN CopilotError(ctx)
    ELSE IF resp.choices # <<>>
         THEN [StepOk([ctx EXCEPT !.review_result = Some(resp.choices[1])])
                 EXCEPT !.passed = review_passed(resp.choices[1])]
         ELSE StepErr(ctx, "Other", <<"Failed to get review response">>)

\* ---- process_question: the arms of its loop
\* Variant: a failed review starts over at UnderstandQuestion.
after_review_restart(passed) == IF passed THEN "Done" ELSE "UnderstandQuestion"

\* The step a review verdict leads to.
after_review(passed) == IF passed THEN "Done" ELSE "PlanExecution"

\* The note the specification appends when the iteration limit is reached.
IterationLimitNote == <<"reached iteration limit">>

\* Variant: the returned answer always carries the note.
done_return_with_note(ctx) == unwrap_or_default(ctx.current_answer) \o IterationLimitNote

\* The value the Done arm returns.
done_return(ctx) == unwrap_or_default(ctx.current_answer)

\* ----------------------------------------------------------------- inputs
Questions == {<<"q1">>, <<"q2">>}

UnderstandContents == {<<"intent">>}

PlanContents ==
    { <<"command", ":", " ", "tree", " ", "src", "\n",
        "command", ":", " ", "show_file", " ", "src", "/", "main.x">>,
      <<"command", ":", " ", "tree", " ", "src", "\n",
        "command", ":", " ", "show_file", " ", "src", "/", "main.rs", "\n">>,
      <<"plan", "\n", "KOMANDO", ":", " ", "show_file", " ", "src", "/", "main.rs", " ", "\r", "\n",
        "KOMANDO", ":", "tree", " ", "src">>,
      <<"command", ":", " ", "show_file", " ", "src", "/", "locked">>,
      <<"command", ":", " ", "show_file", " ", "src">>,
      <<"command", ":", " ", "show_file", " ", "src", "/", "wide.txt">>,
      <<"command", ":", " ", "tree", " ", "nope">>,
      <<"command", ":", " ", "show_file", " ", "src", "/", "main.rs", "\n",
        "command", ":", " ", "tree">>,
      <<" ", "tree", " ", "src", "\n">>,
      <<"no", " ", "idea">>,
      <<"note", ":", " ", "use", " ", "command", ":", " ", "tree", " ", "src">>,
      <<>> }

AnswerContents == {<<>>, <<"A1">>, <<"A2">>}

ReviewContents ==
    { <<"TEKISETSU">>, <<"FU", "JUUBUN">>, <<"FU", "TEKISETSU">>, <<"OK">>,
      <<"TEKISETSU", " ", "FU", "JUUBUN">> }

\* What a capability call can come back with.
Responses(contents) ==
    {CallError, Choices(<<>>)}
        \cup {Choices(<<c>>) : c \in contents}
        \cup {Choices(<<c, <<"another choice">>>>) : c \in {CHOOSE c \in contents : c # <<>>}}

Record(step, resp) == [step |-> step, err |-> resp.err, choices |-> resp.choices]

NoResult == [val |-> <<>>, error |-> NoError]

\* ------------------------------------------------------------------- Init
\* No direct call of generate_tree has been made.
NoWalk ==
    [called |-> FALSE, fn |-> "none", path |-> <<>>, prefix |-> <<>>, ignore |-> None,
     depth |-> None, ret |-> Ok(<<>>)]

agent_vars == <<context, status, result, iteration_count, calls, commands_run,
                questions_asked, last_request, last_response, answer_produced>>

\* Agent::new: the default context, nothing asked yet.
AgentNew ==
    /\ context = AgentContextDefault
    /\ status = "idle"
    /\ result = NoResult
    /\ iteration_count = 0
    /\ calls = 0
    /\ commands_run = 0
    /\ questions_asked = 0
    /\ last_request = NoRequest
    /\ last_response = NoResponse
    /\ answer_produced = None

Init ==
    /\ fs = AgentFs
    /\ walk = NoWalk
    /\ frames = <<>>
    /\ AgentNew

\* ---------------------------------------------------------------- actions
\* The `?` of an arm: the step's failure ends process_question, the step
\* itself is left where it failed.
Propagate(r) ==
    /\ context' = r.ctx
    /\ status' = r.tag
    /\ result' = [val |-> <<>>, error |-> r.error]

\* An arm that succeeded: the loop goes on at step next.
Continue(r, next) ==
    /\ context' = [r.ctx EXCEPT !.current_step = next]
    /\ UNCHANGED <<status, result>>

Running(step) == status = "running" /\ context.current_step = step

\* Variant: the context of the previous question is kept, only the question
\* and the step are set.
ProcessQuestion_keep(q) ==
    /\ status \in {"idle", "ok", "err"}
    /\ questions_asked < MaxQuestions
    /\ context' = [context EXCEPT !.question = q, !.current_step = "UnderstandQuestion"]
    /\ status' = "running"
    /\ result' = NoResult
    /\ iteration_count' = 0
    /\ calls' = 0
    /\ commands_run' = 0
    /\ questions_asked' = questions_asked + 1
    /\ last_request' = NoRequest
    /\ last_response' = NoResponse
    /\ answer_produced' = None
    /\ UNCHANGED <<fs, walk, frames>>

\* process_question(question) up to its loop.  A panic has unwound the
\* caller: the agent is not used again.
ProcessQuestion(q) ==
    /\ status \in {"idle", "ok", "err"}
    /\ questions_asked < MaxQuestions
    /\ context' = [AgentContextDefault EXCEPT !.question = q]
    /\ status' = "running"
    /\ result' = NoResult
    /\ iteration_count' = 0
    /\ calls' = 0
    /\ commands_run' = 0
    /\ questions_asked' = questions_asked + 1
    /\ last_request' = NoRequest
    /\ last_response' = NoResponse
    /\ answer_produced' = None
    /\ UNCHANGED <<fs, walk, frames>>

\* AgentStep::UnderstandQuestion arm.
UnderstandQuestion(resp) ==
    /\ Running("UnderstandQuestion")
    /\ LET r == understand_question(context, resp)
       IN  IF r.tag = "ok" THEN Continue(r, "PlanExecution") ELSE Propagate(r)
    /\ calls' = calls + 1
    /\ last_request' = [step |-> "UnderstandQuestion", content |-> understand_request(context)]
    /\ last_response' = Record("UnderstandQuestion", resp)
    /\ UNCHANGED <<iteration_count, commands_run, questions_asked, answer_produced>>
    /\ UNCHANGED <<fs, walk, frames>>

\* AgentStep::PlanExecution arm.
PlanExecution(resp) ==
    /\ Running("PlanExecution")
    /\ iteration_count < MaxCycles
    /\ LET r == plan_execution(context, resp)
       IN  IF r.tag = "ok" THEN Continue(r, "ExecuteCommands") ELSE Propagate(r)
    /\ iteration_count' = iteration_count + 1
    /\ calls' = calls + 1
    /\ last_request' = [step |-> "PlanExecution", content |-> plan_request(context)]
    /\ last_response' = Record("PlanExecution", resp)
    /\ UNCHANGED <<commands_run, questions_asked, answer_produced>>
    /\ UNCHANGED <<fs, walk, frames>>

\* AgentStep::ExecuteCommands arm.
ExecuteCommands ==
    /\ Running("ExecuteCommands")
    /\ LET r == execute_commands(context)
       IN  /\ IF r.tag = "ok" THEN Continue(r, "CreateAnswer") ELSE Propagate(r)
           /\ commands_run' = commands_run + r.started
    /\ UNCHANGED <<iteration_count, calls, questions_asked, last_request, last_response,
                   answer_produced>>
    /\ UNCHANGED <<fs, walk, frames>>

\* AgentStep::CreateAnswer arm.
CreateAnswer(resp) ==
    /\ Running("CreateAnswer")
    /\ LET r == create_answer(context, resp)
       IN  IF r.tag = "ok" THEN Continue(r, "ReviewAnswer") ELSE Propagate(r)
    /\ calls' = calls + 1
    /\ last_request' = [step |-> "CreateAnswer", content |-> answer_request(context)]
    /\ last_response' = Record("CreateAnswer", resp)
    /\ answer_produced' =
           IF ~resp.err /\ resp.choices # <<>> THEN Some(resp.choices[1]) ELSE None
    /\ UNCHANGED <<iteration_count, commands_run, questions_asked>>
    /\ UNCHANGED <<fs, walk, frames>>

\* AgentStep::ReviewAnswer arm (no call is made without an answer).
ReviewAnswer(resp) ==
    /\ Running("ReviewAnswer")
    /\ LET r == review_answer(context, resp)
       IN  IF r.tag = "ok" THEN Continue(r, after_review(r.passed)) ELSE Propagate(r)
    /\ IF context.current_answer.some
       THEN /\ calls' = calls + 1
            /\ last_request' = [step |-> "ReviewAnswer", content |-> review_request(context)]
            /\ last_response' = Record("ReviewAnswer", resp)
       ELSE UNCHANGED <<calls, last_request, last_response>>
    /\ UNCHANGED <<iteration_count, commands_run, questions_asked, answer_produced>>
    /\ UNCHANGED <<fs, walk, frames>>

\* AgentStep::Done arm.
Done ==
    /\ Running("Done")
    /\ status' = "ok"
    /\ result' = [val |-> done_return(context), error |-> NoError]
    /\ UNCHANGED <<context, iteration_count, calls, commands_run, questions_asked,
                   last_request, last_response, answer_produced>>
    /\ UNCHANGED <<fs, walk, frames>>

Next ==
    \/ \E q \in Questions : ProcessQuestion(q)
    \/ \E resp \in Responses(UnderstandContents) : UnderstandQuestion(resp)
    \/ \E resp \in Responses(PlanContents) : PlanExecution(resp)
    \/ ExecuteCommands
    \/ \E resp \in Responses(AnswerContents) : CreateAnswer(resp)
    \/ \E resp \in Responses(ReviewContents) : ReviewAnswer(resp)
    \/ Done

Spec == Init /\ [][Next]_vars

\* ------------------------------------------- generate_tree called directly
\* Entries created below the walked directory.
MaxEntries == 3
\* The directory the trees are built in.
Root == <<"t">>

EntryNames == {<<"a">>, <<"a", "b">>, <<"B">>}

\* The ignore argument: none, or a list of regexes.
IgnoreInputs ==
    { None,
      Some(<<<<"^", "a", "$">>>>),
      Some(<<<<"^", "\\", ".", ".", "*">>, <<"B">>>>) }

\* The depth argument: no limit, or a limit up to the number of entries.
DepthInputs == {None} \cup {Some(n) : n \in 0..MaxEntries}

PrefixInputs == {<<>>, <<">", " ">>}

\* The path argument: the directory itself, a path in it that may be a
\* directory, a file or missing, and a path that is always missing.
PathInputs == {Root, join(Root, <<"B">>), join(Root, <<"x">>)}

TreeInit ==
    /\ fs = (Root :> Dir(<<>>))
    /\ walk = NoWalk
    /\ frames = <<>>
    /\ AgentNew

\* A new entry of directory dir, yielded last by read_dir.
AddEntry(dir, name, node) ==
    /\ ~walk.called
    /\ is_dir(dir)
    /\ ~exists(join(dir, name))
    /\ Cardinality(DOMAIN fs) <= MaxEntries
    /\ fs' = [fs EXCEPT ![dir].entries = Append(@, name)] @@ (join(dir, name) :> node)
    /\ UNCHANGED <<walk, frames>>
    /\ UNCHANGED agent_vars

\* fs::create_dir(dir.join(name))
create_dir(dir, name) == AddEntry(dir, name, Dir(<<>>))

\* File::create(dir.join(name))
File_create(dir, name) == AddEntry(dir, name, File(TRUE, <<>>))

\* generate_tree(path, prefix, ignore, depth) and what it returns.
GenerateTree(path, prefix, ignore, depth) ==
    /\ ~walk.called
    /\ walk' = [called |-> TRUE, fn |-> "generate_tree", path |-> path, prefix |-> prefix,
                ignore |-> ignore, depth |-> depth,
                ret |-> generate_tree(path, prefix, ignore, depth)]
    /\ UNCHANGED <<fs, frames>>
    /\ UNCHANGED agent_vars

TreeNext ==
    \/ \E dir \in DOMAIN fs, name \in EntryNames : create_dir(dir, name)
    \/ \E dir \in DOMAIN fs, name \in EntryNames : File_create(dir, name)
    \/ \E path \in PathInputs, prefix \in PrefixInputs,
          ignore \in IgnoreInputs, depth \in DepthInputs :
            GenerateTree(path, prefix, ignore, depth)

TreeSpec == TreeInit /\ [][TreeNext]_vars

\* --------------------------------- the walker on prepared file systems
\* An absolute directory with no .git and no .gitignore in it or above it.
Top == <<"/", "t">>

\* A directory whose entries cannot be listed.
LockedDir(entries) ==
    [kind |-> "dir", readable |-> FALSE, content |-> <<>>, entries |-> entries]

\* /t holds directory B with file a in it, and a file a of its own.
PlainFs ==
    (<<"/">> :> Dir(<<<<"t">>>>))
    @@ (Top :> Dir(<<<<"a">>, <<"B">>>>))
    @@ (join(Top, <<"a">>) :> File(TRUE, <<>>))
    @@ (join(Top, <<"B">>) :> Dir(<<<<"a">>>>))
    @@ (join(join(Top, <<"B">>), <<"a">>) :> File(TRUE, <<>>))

\* The file system files with one more entry, yielded first, in dir.
WithEntry(files, dir, name, node) ==
    [p \in (DOMAIN files) \cup {join(dir, name)} |->
        IF p = join(dir, name) THEN node
        ELSE IF p = dir
             THEN [files[p] EXCEPT !.entries = <<name>> \o @]
             ELSE files[p]]

\* PlainFs with the file /t/.gitignore.
WithGitignore(node) == WithEntry(PlainFs, Top, DotGitignore, node)

\* The file systems the walker is run on.
ProbeFs ==
    { PlainFs,
      \* /t/.gitignore names the nested path B/a
      WithGitignore(File(TRUE, <<"B", "/", "a", "\n">>)),
      \* /t/.gitignore names a, and /t is a repository
      WithEntry(WithGitignore(File(TRUE, <<"a", "\n">>)), Top, DotGit, Dir(<<>>)),
      \* /t/.gitignore exists and cannot be read
      WithGitignore(File(FALSE, <<"a", "\n">>)),
      \* no marker in /t or above it; the directory the process runs in has
      \* a .gitignore
      PlainFs @@ (DotGitignore :> File(TRUE, <<"a", "\n">>)),
      \* the entries of /t/B cannot be listed
      [PlainFs EXCEPT ![join(Top, <<"B">>)] = LockedDir(<<<<"a">>>>)],
      \* read_dir fails on one entry of /t
      [PlainFs EXCEPT ![Top].entries = <<<<"a">>, EntryError, <<"B">>>>] }

ProbePaths == {Top, join(Top, <<"B">>), join(Top, <<"x">>)}

ProbeIgnores == {None, Some(<<<<"^", "B", "/", "a", "$">>>>)}

ProbeDepths == {None, Some(0), Some(1), Some(2)}

ProbeInit ==
    /\ fs \in ProbeFs
    /\ walk = NoWalk
    /\ frames = <<>>
    /\ AgentNew

\* find_gitignore_patterns(start_path) and what it returns.
FindGitignorePatterns(start_path) ==
    /\ ~walk.called
    /\ walk' = [called |-> TRUE, fn |-> "find_gitignore_patterns", path |-> start_path,
                prefix |-> <<>>, ignore |-> None, depth |-> None,
                ret |-> find_gitignore_patterns(start_path)]
    /\ UNCHANGED <<fs, frames>>
    /\ UNCHANGED agent_vars

ProbeNext ==
    \/ \E path \in ProbePaths, ignore \in ProbeIgnores, depth \in ProbeDepths :
            GenerateTree(path, <<>>, ignore, depth)
    \/ \E start_path \in ProbePaths : FindGitignorePatterns(start_path)

ProbeSpec == ProbeInit /\ [][ProbeNext]_vars

\* ------------------------------------------ parse_gitignore on written files
\* Lines written to a .gitignore.
MaxLines == 2

\* The file the lines are written to.
GitignorePath == join(Top, DotGitignore)

\* The lines: name patterns with "*", "?", a trailing "/", a leading "!",
\* surrounding blanks and a backslash, a comment and a blank line.
LineInputs ==
    { <<"*", ".", "l", "o", "g">>,
      <<".", "D", "S", "_", "S", "t", "o", "r", "e">>,
      <<"#", " ", "l", "o", "g">>,
      <<" ">>,
      <<"!", "a", ".", "b">>,
      <<"B", "/">>,
      <<"a", "?">>,
      <<" ", "a", "b", " ">>,
      <<"a", "\\", ".", "b">>,
      <<"a", "\\", "g">> }

GitignoreInit ==
    /\ fs = WithGitignore(File(TRUE, <<>>))
    /\ walk = NoWalk
    /\ frames = <<>>
    /\ AgentNew

\* writeln!(gitignore_file, line)
writeln(line) ==
    /\ ~walk.called
    /\ Len(Lines(fs[GitignorePath].content)) < MaxLines
    /\ fs' = [fs EXCEPT ![GitignorePath].content = @ \o line \o <<"\n">>]
    /\ UNCHANGED <<walk, frames>>
    /\ UNCHANGED agent_vars

\* parse_gitignore(gitignore_path) and what it returns.
ParseGitignore(gitignore_path) ==
    /\ ~walk.called
    /\ walk' = [called |-> TRUE, fn |-> "parse_gitignore", path |-> gitignore_path,
                prefix |-> <<>>, ignore |-> None, depth |-> None,
                ret |-> parse_gitignore(gitignore_path)]
    /\ UNCHANGED <<fs, frames>>
    /\ UNCHANGED agent_vars

GitignoreNext ==
    \/ \E line \in LineInputs : writeln(line)
    \/ ParseGitignore(GitignorePath)

GitignoreSpec == GitignoreInit /\ [][GitignoreNext]_vars

\* ------------------------------- the walker step by step, with symlinks
\* Symbolic links the operating system follows while it resolves one path
\* before it gives up (40 on Linux).
SymlinkLimit == 2

\* A symbolic link to the directory target.
Symlink(target) ==
    [kind |-> "symlink", readable |-> TRUE, content |-> <<>>, entries |-> <<>>,
     target |-> target]

\* The node an absolute path leads to, every symbolic link on the way
\* followed, or none when a name is missing or too many links are met.
RECURSIVE resolve_from(_, _, _)
resolve_from(current, names, followed) ==
    IF names = <<>> THEN Some(current)
    ELSE LET next == join(current, Head(names))
         IN  IF next \notin DOMAIN fs THEN None
             ELSE IF fs[next].kind # "symlink"
             THEN resolve_from(next, Tail(names), followed)
             ELSE IF followed >= SymlinkLimit THEN None
             ELSE resolve_from(fs[next].target, Tail(names), followed + 1)

resolve(path) == resolve_from(<<"/">>, Split(Tail(path), "/"), 0)

\* Path::is_dir: the path, links followed, leads to a directory.
path_is_dir(path) == resolve(path).some /\ fs[resolve(path).val].kind = "dir"

\* fs::read_dir on a path that may lead through links.
read_dir_following(path) ==
    IF path_is_dir(path) THEN read_dir(resolve(path).val) ELSE None

\* PlainFs with a link named b in /t/B.
WithLink(target) == WithEntry(PlainFs, join(Top, <<"B">>), <<"b">>, Symlink(target))

\* The file systems walked step by step: without a link, with a link from
\* /t/B to /t, with a link from /t/B to /t/B itself, and with a link from /t
\* to /t/B.
LinkFs ==
    { PlainFs,
      WithLink(Top),
      WithLink(join(Top, <<"B">>)),
      WithEntry(PlainFs, Top, <<"b">>, Symlink(join(Top, <<"B">>))) }

LinkPaths == {Top, join(Top, <<"B">>), join(Top, <<"x">>)}

LinkIgnores == {None, Some(<<<<"^", "a", "$">>>>)}

LinkDepths == {None, Some(0), Some(1), Some(2)}

LinkInit ==
    /\ fs \in LinkFs
    /\ walk = NoWalk
    /\ frames = <<>>
    /\ AgentNew

\* The frame of a call of generate_tree_with_patterns that has read its
\* directory: the arguments, the sorted entries and the loop index.
Frame(path, prefix, ignore, depth) ==
    [path    |-> path,
     prefix  |-> prefix,
     ignore  |-> ignore,
     depth   |-> depth,
     entries |-> sort_by_key(filter_entries(path, ignore,
                     filter_map_ok(read_dir_following(path).val))),
     i       |-> 1]

\* generate_tree is called: the rules are settled and the outermost
\* generate_tree_with_patterns returns at once for Some(0), panics when the
\* directory cannot be read, and otherwise starts its loop.
CallGenerateTree(path, prefix, ignore, depth) ==
    /\ walk = NoWalk
    /\ frames = <<>>
    /\ LET found    == find_gitignore_patterns(path)
           patterns == IF ignore.some THEN ignore.val
                       ELSE IF found.tag = "ok" THEN found.out ELSE <<>>
           started  == [called |-> FALSE, fn |-> "generate_tree", path |-> path,
                        prefix |-> prefix, ignore |-> ignore, depth |-> depth,
                        ret |-> Ok(<<>>)]
       IN  IF depth = Some(0)
           THEN walk' = [started EXCEPT !.called = TRUE] /\ frames' = <<>>
           ELSE IF ~read_dir_following(path).some
           THEN /\ walk' = [started EXCEPT !.called = TRUE,
                                           !.ret = Panic(<<"Failed to read directory">>)]
                /\ frames' = <<>>
           ELSE /\ walk' = started
                /\ frames' = <<Frame(path, prefix, patterns, depth)>>
    /\ UNCHANGED fs
    /\ UNCHANGED agent_vars

\* One turn of the loop over the entries in the innermost call: the line is
\* pushed, and for a directory within the depth limit the nested call is
\* made, which returns at once for Some(0), panics when the directory cannot
\* be read, and otherwise starts its own loop.
LoopTurn ==
    /\ frames # <<>>
    /\ frames[Len(frames)].i <= Len(frames[Len(frames)].entries)
    /\ LET top       == frames[Len(frames)]
           file_name == top.entries[top.i]
           is_last   == top.i = Len(top.entries)
           line      == top.prefix \o connector(is_last) \o file_name \o <<"\n">>
           new_path  == join(top.path, file_name)
           pushed    == [walk EXCEPT !.ret.out = @ \o line]
           turned    == [frames EXCEPT ![Len(frames)].i = @ + 1]
       IN  IF ~(path_is_dir(new_path) /\ may_descend(top.depth))
              \/ new_depth(top.depth) = Some(0)
           THEN walk' = pushed /\ frames' = turned
           ELSE IF ~read_dir_following(new_path).some
           THEN /\ walk' = [pushed EXCEPT !.called = TRUE,
                                          !.ret = Panic(<<"Failed to read directory">>)]
                /\ frames' = <<>>
           ELSE /\ walk' = pushed
                /\ frames' = Append(turned, Frame(new_path, new_prefix(top.prefix, is_last),
                                                  top.ignore, new_depth(top.depth)))
    /\ UNCHANGED fs
    /\ UNCHANGED agent_vars

\* The loop of the innermost call is over: it returns its output, and the
\* outermost call returns the listing to the caller of generate_tree.
Return ==
    /\ frames # <<>>
    /\ frames[Len(frames)].i > Len(frames[Len(frames)].entries)
    /\ frames' = SubSeq(frames, 1, Len(frames) - 1)
    /\ walk' = [walk EXCEPT !.called = Len(frames) = 1]
    /\ UNCHANGED fs
    /\ UNCHANGED agent_vars

LinkNext ==
    \/ \E path \in LinkPaths, ignore \in LinkIgnores, depth \in LinkDepths :
            CallGenerateTree(path, <<>>, ignore, depth)
    \/ LoopTurn
    \/ Return

LinkSpec == LinkInit /\ [][LinkNext]_vars

TypeOK ==
    /\ context.current_step \in AgentStep
    /\ status \in {"idle", "running", "ok", "err", "panic"}
    /\ iteration_count \in 0..MaxCycles
    /\ questions_asked \in 0..MaxQuestions

\* ----------------------------------------------------------------- claims
GotChoice(r) == ~r.err /\ r.choices # <<>>
ZeroChoices(r) == ~r.err /\ r.choices = <<>>

\* The latest capability call was a review and its text is a failing verdict.
FailingVerdict ==
    /\ last_response.step = "ReviewAnswer"
    /\ GotChoice(last_response)
    /\ ~review_passed(last_response.choices[1])

\* The latest capability call was a review and its text is a passing verdict.
PassingVerdict ==
    /\ last_response.step = "ReviewAnswer"
    /\ GotChoice(last_response)
    /\ review_passed(last_response.choices[1])

\* C1: when every review fails, the session stops after MAX_ITERATIONS
\* plan/execute/answer cycles and returns successfully the last answer with
\* the iteration-limit note appended; it never starts a further cycle.
C1_ReturnsAtIterationLimit ==
    /\ iteration_count <= MAX_ITERATIONS
    /\ (iteration_count = MAX_ITERATIONS /\ FailingVerdict) =>
          /\ status = "ok"
          /\ result = [val   |-> context.current_answer.val \o IterationLimitNote,
                       error |-> NoError]

\* C2: when the review of the first iteration passes, the session is Done
\* after exactly one cycle (four capability calls) and what it returns is
\* exactly the text the Answering step of that iteration received.
C2_FirstPassReturnsAnswer ==
    (iteration_count = 1 /\ PassingVerdict) =>
        /\ context.current_step = "Done"
        /\ calls = 4
        /\ answer_produced.some
        /\ status \in {"running", "ok"}
        /\ (status = "ok" => result = [val |-> answer_produced.val, error |-> NoError])

\* C2 witness: a question answered in its first iteration has returned.
C2_Witness ==
    /\ status = "ok"
    /\ iteration_count = 1
    /\ PassingVerdict
    /\ result.val = <<"A1">>

\* The command the Executing step stopped at.
FailingCommand == context.plan[Len(context.command_results) + 1]

\* The command is a tree or show_file command on a path that does not exist.
MissingPath(command) ==
    \E pre \in {<<"tree", " ">>, <<"show_file", " ">>} :
        StartsWith(command, pre) /\ ~exists(Drop(command, Len(pre)))

\* C3: when a planned command fails during Executing, process_question
\* returns an error naming the cause (not found, for a missing path), no
\* later command is run and no answer is asked for in that iteration.
C3_FailedCommandReturnsItsError ==
    ( /\ context.current_step = "ExecuteCommands"
      /\ status \in {"err", "panic"}
      /\ run_command(FailingCommand).tag # "ok" ) =>
        /\ status = "err"
        /\ result.error.kind \in {"NotFound", "IsDirectory", "Io", "CommandError"}
        /\ (MissingPath(FailingCommand) => result.error.kind = "NotFound")
        /\ last_response.step = "PlanExecution"
        /\ Len(context.command_results) < Len(context.plan)

\* The latest failure of the question is a propagated error value.
StepFailed(kind) == status = "err" /\ result.error.kind = kind

\* C4: a failed step ends process_question at once with that step's error:
\* a failed capability call returns CopilotError and leaves the context as it
\* was, a failed command returns the command's error, and after any failure
\* no capability call is made and no command is run for that question; the
\* session re-enters PlanExecution only from a failing review verdict.
C4_FailureAbortsQuestion ==
    [][ /\ (status \in {"err", "panic"}) =>
              \/ /\ calls' = calls
                 /\ commands_run' = commands_run
                 /\ context' = context
                 /\ status' = status
                 /\ result' = result
              \/ /\ status = "err"
                 /\ questions_asked' = questions_asked + 1
                 /\ context'.current_step = "UnderstandQuestion"
        /\ (status = "running" /\ calls' = calls + 1 /\ last_response'.err) =>
              /\ status' = "err"
              /\ result' = [val |-> <<>>, error |-> [kind |-> "CopilotError", detail |-> <<>>]]
              /\ context' = context
        /\ (Running("ExecuteCommands") /\ status' = "err") =>
              /\ result'.error = run_command(context.plan[Len(context'.command_results) + 1]).error
              /\ context'.current_step = "ExecuteCommands"
              /\ calls' = calls
        /\ ( /\ status = "running"
             /\ iteration_count >= 1
             /\ context.current_step # "PlanExecution"
             /\ context'.current_step = "PlanExecution" ) =>
              /\ context.current_step = "ReviewAnswer"
              /\ status' = "running"
              /\ last_response'.step = "ReviewAnswer"
              /\ GotChoice(last_response')
              /\ ~review_passed(last_response'.choices[1])
      ]_vars

\* C4 witness: the planning call of the second iteration failed, after the
\* first iteration had produced an answer, and the error was returned.
C4_Witness ==
    /\ StepFailed("CopilotError")
    /\ context.current_step = "PlanExecution"
    /\ iteration_count = 2
    /\ context.current_answer.some

\* The step changes the loop of process_question may make within a question.
StepOrder ==
    { <<"UnderstandQuestion", "PlanExecution">>,
      <<"PlanExecution", "ExecuteCommands">>,
      <<"ExecuteCommands", "CreateAnswer">>,
      <<"CreateAnswer", "ReviewAnswer">>,
      <<"ReviewAnswer", "Done">>,
      <<"ReviewAnswer", "PlanExecution">> }

\* C5: within a question the step only moves along UnderstandQuestion ->
\* PlanExecution -> ExecuteCommands -> CreateAnswer -> ReviewAnswer -> (Done
\* or PlanExecution); UnderstandQuestion is entered only by the start of a
\* question, and CreateAnswer only once every planned command has run.
C5_StepOrder ==
    [][ /\ (status = "running" /\ context'.current_step # context.current_step) =>
              <<context.current_step, context'.current_step>> \in StepOrder
        /\ (context'.current_step = "UnderstandQuestion"
               /\ context.current_step # "UnderstandQuestion") =>
              questions_asked' = questions_asked + 1
        /\ (status # "running" /\ questions_asked' = questions_asked) =>
              context'.current_step = context.current_step
        /\ (context.current_step # "CreateAnswer" /\ context'.current_step = "CreateAnswer") =>
              /\ Len(context'.command_results) = Len(context.plan)
              /\ commands_run' = commands_run + Len(context.plan)
      ]_vars

\* C5 witness: a question that needed a retry has reached Done.
C5_Witness ==
    /\ status = "ok"
    /\ context.current_step = "Done"
    /\ iteration_count = 2

\* C6: once Executing has succeeded, command_results holds one pair per plan
\* entry, in plan order, each pair carrying its plan entry as the command.
C6_ResultsFollowPlan ==
    (context.current_step \in {"CreateAnswer", "ReviewAnswer", "Done"}) =>
        /\ Len(context.command_results) = Len(context.plan)
        /\ \A i \in 1..Len(context.plan) : context.command_results[i][1] = context.plan[i]

\* C6 witness: a plan of two different commands has been executed.
C6_Witness ==
    /\ context.current_step = "CreateAnswer"
    /\ Len(context.command_results) = 2
    /\ context.plan[1] # context.plan[2]

\* The text holds no line with a command marker.
NoCommandLine(content) ==
    \A i \in 1..Len(Lines(content)) : ~is_command_line(Lines(content)[i])

\* The latest capability call was a planning call that received a choice.
PlanReceived == last_response.step = "PlanExecution" /\ GotChoice(last_response)

\* C7: a planning response without any command line makes the plan the one
\* command that is the whole trimmed response; so every plan taken from a
\* response is non-empty, and the Executing step that follows either runs at
\* least one command or fails with an unknown-command error.
C7_FallbackPlan ==
    [][ (Running("ExecuteCommands") /\ PlanReceived) =>
            /\ context.plan # <<>>
            /\ (NoCommandLine(last_response.choices[1]) =>
                   context.plan = <<Trim(last_response.choices[1])>>)
            /\ \/ commands_run' > commands_run
               \/ /\ StepFailed("CommandError")'
                  /\ result'.error.detail = <<"Unknown command: ">> \o context.plan[1]
      ]_vars

\* C7 witness: a response without a command line was executed as one command
\* and rejected as unknown.
C7_Witness ==
    /\ StepFailed("CommandError")
    /\ PlanReceived
    /\ NoCommandLine(last_response.choices[1])
    /\ context.plan = <<<<"no", " ", "idea">>>>

\* C8: a planning response with zero choices fails the Planning step: the
\* session returns an error and does not go on to ExecuteCommands.
C8_PlanWithoutChoiceFails ==
    (last_response.step = "PlanExecution" /\ ZeroChoices(last_response)) =>
        /\ status = "err"
        /\ context.current_step = "PlanExecution"

\* C9: the Understanding step with a response of zero choices goes on to
\* PlanExecution and changes nothing else of the context; the step ends the
\* session only when the call itself failed, with that error.
C9_UnderstandingNeverFailsOnContent ==
    [][ Running("UnderstandQuestion") =>
            IF last_response'.err
            THEN /\ StepFailed("CopilotError")'
                 /\ context' = context
            ELSE /\ status' = "running"
                 /\ result' = result
                 /\ context' = [context EXCEPT !.current_step = "PlanExecution"]
      ]_vars

\* C9 witness: Understanding received no choice and the session is planning.
C9_Witness ==
    /\ Running("PlanExecution")
    /\ last_response.step = "UnderstandQuestion"
    /\ ZeroChoices(last_response)

\* C10: a response with zero choices in CreateAnswer or in ReviewAnswer makes
\* process_question return an error, leaves current_answer (review_result)
\* as it was, and the failed question never becomes Done.
C10_NoChoiceIsFatal ==
    [][ /\ (Running("CreateAnswer") /\ ZeroChoices(last_response')) =>
              /\ StepFailed("Other")'
              /\ result'.error.detail = <<"Failed to get answer response">>
              /\ context' = context
        /\ (Running("ReviewAnswer") /\ ZeroChoices(last_response')) =>
              /\ StepFailed("Other")'
              /\ result'.error.detail = <<"Failed to get review response">>
              /\ context' = context
        /\ (status = "err" /\ questions_asked' = questions_asked) =>
              /\ status' = "err"
              /\ context'.current_step # "Done"
      ]_vars

\* C10 witness: in a second iteration the Answering step received no choice;
\* the error was returned and the first iteration's answer is still stored.
C10_Witness ==
    /\ StepFailed("Other")
    /\ context.current_step = "CreateAnswer"
    /\ ZeroChoices(last_response)
    /\ iteration_count = 2
    /\ context.current_answer.some
    /\ context.review_result.some

\* The text holds the affirmative token.
HasAffirmative(text) == \E i \in 1..Len(text) : text[i] = "TEKISETSU"

\* The text holds one of the two negative tokens, each of which is the
\* character FU followed by a word.
HasNegative(text) ==
    \E i \in 1..(Len(text) - 1) :
        text[i] = "FU" /\ text[i + 1] \in {"JUUBUN", "TEKISETSU"}

C12_ReplanCarriesReview ==
    [][ (Running("PlanExecution") /\ calls' = calls + 1) =>
            /\ last_request'.step = "PlanExecution"
            /\ IF iteration_count = 0
               THEN last_request'.content = <<"PROMPT_PLAN">> \o context.question
               ELSE /\ last_response.step = "ReviewAnswer"
                    /\ GotChoice(last_response)
                    /\ last_request'.content =
                          <<"PROMPT_PREVIOUS_REVIEW">> \o last_response.choices[1]
                              \o <<"\n", "\n", "PROMPT_PLAN">> \o context.question
      ]_vars

\* C12 witness: the third Planning step has sent the second review's text.
C12_Witness ==
    /\ last_request.step = "PlanExecution"
    /\ iteration_count = 3
    /\ StartsWith(last_request.content, <<"PROMPT_PREVIOUS_REVIEW", "FU", "JUUBUN", "\n">>)

\* C13: process_question starts every question from the default context
\* with only the question set, whatever the previous question left behind;
\* its first requests carry the new question and nothing of an earlier one.
C13_FreshContextPerQuestion ==
    [][ /\ (questions_asked' = questions_asked + 1) =>
              /\ context'.question \in Questions
              /\ context' = [AgentContextDefault EXCEPT !.question = context'.question]
              /\ status' = "running"
              /\ result' = NoResult
        /\ (Running("UnderstandQuestion") /\ calls' = calls + 1) =>
              /\ calls = 0
              /\ context = [AgentContextDefault EXCEPT !.question = context.question]
              /\ last_request'.content = <<"PROMPT_UNDERSTAND">> \o context.question
        /\ (Running("PlanExecution") /\ iteration_count = 0 /\ calls' = calls + 1) =>
              /\ context = [AgentContextDefault EXCEPT !.question = context.question,
                                                       !.current_step = "PlanExecution"]
              /\ last_request'.content = <<"PROMPT_PLAN">> \o context.question
      ]_vars

\* C13 witness: the second question has been planned from a fresh context.
C13_Witness ==
    /\ questions_asked = 2
    /\ Running("ExecuteCommands")
    /\ iteration_count = 1
    /\ last_request.content = <<"PROMPT_PLAN">> \o context.question
    /\ context.command_results = <<>>

\* C14: a successful return of process_question carries a non-empty answer.
C14_SuccessHasAnswer ==
    (status = "ok") =>
        /\ context.current_answer.some
        /\ result.val # <<>>

\* The Executing step ended process_question at the command FailingCommand.
ExecutingFailed ==
    /\ context.current_step = "ExecuteCommands"
    /\ status \in {"err", "panic"}

\* C15: a tree command on a path that does not exist ends process_question
\* with a not-found error value; the process does not crash.
C15_TreeOnMissingPathIsNotFound ==
    ( /\ ExecutingFailed
      /\ StartsWith(FailingCommand, <<"tree", " ">>)
      /\ ~exists(Drop(FailingCommand, 2)) ) =>
        /\ status = "err"
        /\ result.error.kind = "NotFound"

\* What a recorded command must have produced: the listing of the path
\* after "tree ", or the content of the file after "show_file ".
OutputOf(command) ==
    IF StartsWith(command, <<"tree", " ">>)
    THEN generate_tree(Drop(command, 2), <<>>, None, None).out
    ELSE fs[Drop(command, 2)].content

\* C16: a command is run as a listing exactly when it starts with "tree ",
\* as a file read exactly when it starts with "show_file ", on the path that
\* follows the prefix; any other command, the bare words included, fails
\* as an unknown command carrying the command text.
C16_CommandsByLiteralPrefix ==
    /\ \A i \in 1..Len(context.command_results) :
          LET command == context.command_results[i][1]
          IN  /\ \/ StartsWith(command, <<"tree", " ">>)
                 \/ StartsWith(command, <<"show_file", " ">>)
              /\ exists(Drop(command, 2))
              /\ context.command_results[i][2] = OutputOf(command)
    /\ ExecutingFailed =>
          /\ (status = "err" /\ result.error.kind = "CommandError")
                <=> ~ \/ StartsWith(FailingCommand, <<"tree", " ">>)
                      \/ StartsWith(FailingCommand, <<"show_file", " ">>)
          /\ (result.error.kind = "CommandError") =>
                result.error.detail = <<"Unknown command: ">> \o FailingCommand

\* C16 witness: the bare word tree, planned after a file read that succeeded,
\* was refused as an unknown command.
C16_Witness ==
    /\ ExecutingFailed
    /\ FailingCommand = <<"tree">>
    /\ result.error.kind = "CommandError"
    /\ Len(context.command_results) = 1

WalkOk == walk.called /\ walk.fn = "generate_tree" /\ walk.ret.tag = "ok"

Connectors == {<<"BOX_T", "BOX_H", "BOX_H", " ">>, <<"BOX_L", "BOX_H", "BOX_H", " ">>}

\* One line taken apart at its first corner or tee: the prefix before it,
\* the four characters of the connector, the name after it, and the nesting
\* level, one more for every four characters of prefix beyond the prefix
\* the call was given.
ReadLine(line, given) ==
    LET marks == {i \in 1..Len(line) : line[i] \in {"BOX_T", "BOX_L"}}
        pos   == IF marks = {} THEN Len(line) + 1
                 ELSE CHOOSE i \in marks : \A k \in marks : i <= k
    IN  [text      |-> line,
         prefix    |-> SubSeq(line, 1, pos - 1),
         connector |-> SubSeq(line, pos, pos + 3),
         name      |-> Drop(line, pos + 3),
         level     |-> (pos - 1 - given) \div 4 + 1,
         rest      |-> (pos - 1 - given) % 4]

RECURSIVE ReadLines(_, _)
ReadLines(lines, given) ==
    IF lines = <<>> THEN <<>>
    ELSE <<ReadLine(Head(lines), given)>> \o ReadLines(Tail(lines), given)

\* The listing of the walk, line by line.
Listing == ReadLines(Lines(walk.ret.out), Len(walk.prefix))

\* The first line is at level 1 and a line is at most one level deeper than
\* the line before it.
WellNested(t) ==
    \A j \in 1..Len(t) :
        /\ t[j].level >= 1
        /\ t[j].rest = 0
        /\ t[j].level <= (IF j = 1 THEN 1 ELSE t[j - 1].level + 1)

\* The line a nested line hangs under: the nearest line above it that is one
\* level higher (0 for a line at level 1).
ParentLine(t, j) ==
    LET above == {k \in 1..(j - 1) :
                     /\ t[k].level = t[j].level - 1
                     /\ \A m \in (k + 1)..(j - 1) : t[m].level >= t[j].level}
    IN  IF above = {} THEN 0 ELSE CHOOSE k \in above : TRUE

\* The paths the first j lines stand for, read off their places in the listing.
RECURSIVE LinePaths(_, _)
LinePaths(t, j) ==
    IF j = 0 THEN <<>>
    ELSE LET before == LinePaths(t, j - 1)
             over   == ParentLine(t, j)
         IN  Append(before, join(IF over = 0 THEN walk.path ELSE before[over], t[j].name))

\* The rule set the walk ran with; none was given and no .gitignore exists
\* when the ignore argument is absent.
WalkRules == IF walk.ignore.some THEN walk.ignore.val ELSE <<>>

Hidden(name) == \E i \in 1..Len(WalkRules) : is_match(WalkRules[i], name)

\* The names leading from the walked directory down to path p.
NamesBelow(p) == Split(path_strip_prefix(p, walk.path).val, "/")

\* The entries at levels 1..n below the walked directory that no rule hides,
\* neither by their own name nor by the name of a directory above them.
Visible(n) ==
    {p \in DOMAIN fs :
        /\ p # walk.path
        /\ path_strip_prefix(p, walk.path).some
        /\ Len(NamesBelow(p)) <= n
        /\ \A i \in 1..Len(NamesBelow(p)) : ~Hidden(NamesBelow(p)[i])}

\* C18: with depth Some(0) generate_tree returns the empty text for any
\* path, existing or not; with Some(n), n > 0, its lines are exactly the
\* entries at levels 1..n that no rule hides, one line each, so that Some(1)
\* lists the direct children only.
C18_DepthLimit ==
    (walk.called /\ walk.depth.some) =>
        /\ (walk.depth.val = 0) => walk.ret = Ok(<<>>)
        /\ (walk.depth.val > 0 /\ walk.ret.tag = "ok") =>
              LET t       == Listing
                  paths   == LinePaths(t, Len(t))
                  visible == Visible(walk.depth.val)
              IN  /\ WellNested(t)
                  /\ {paths[j] : j \in 1..Len(t)} = visible
                  /\ Len(t) = Cardinality(visible)
                  /\ \A j \in 1..Len(t) : t[j].level <= walk.depth.val

\* C18 witness: a chain three directories deep walked with Some(2) gave the
\* two upper entries only.
C18_Witness ==
    /\ WalkOk
    /\ walk.path = Root
    /\ walk.depth = Some(2)
    /\ walk.ignore = None
    /\ Cardinality(Visible(3)) = 3
    /\ \E p \in DOMAIN fs : Len(NamesBelow(p)) = 3
    /\ Len(Listing) = 2

\* C19: within every listed directory the names are in strictly increasing
\* byte order, and every nested line hangs under the line of the directory
\* that holds it, each entry being listed once.
C19_SortedAndNested ==
    WalkOk =>
        LET t     == Listing
            paths == LinePaths(t, Len(t))
        IN  /\ WellNested(t)
            /\ \A j \in 1..Len(t) : paths[j] \in DOMAIN fs
            /\ \A j, k \in 1..Len(t) : (k < j) => paths[k] # paths[j]
            /\ \A j, k \in 1..Len(t) :
                  ( /\ k < j
                    /\ t[k].level = t[j].level
                    /\ ParentLine(t, k) = ParentLine(t, j) ) =>
                      bytes_less(file_name_bytes(t[k].name), file_name_bytes(t[j].name))

\* C19 witness: read_dir yielded ab before B; the listing has B, what B
\* holds, then ab.
C19_Witness ==
    /\ WalkOk
    /\ walk.path = Root
    /\ walk.depth = None
    /\ walk.ignore = None
    /\ fs[Root].entries = <<<<"a", "b">>, <<"B">>>>
    /\ exists(join(join(Root, <<"B">>), <<"a">>))
    /\ [j \in 1..Len(Listing) |-> Listing[j].name] = <<<<"B">>, <<"a">>, <<"a", "b">>>>

\* The entry at path p, named name, is the last one of its directory that no
\* rule hides.
IsLastEntry(p, name) ==
    \A n \in EntryNames :
        (exists(join(parent(p), n)) /\ ~Hidden(n)) =>
            ~bytes_less(file_name_bytes(name), file_name_bytes(n))

\* C20: every line is prefix, connector, name; the connector is the corner
\* exactly for the last entry of its directory that no rule hides; a line
\* at level 1 has the prefix the call was given and a nested line has its
\* directory's prefix extended by four spaces when that directory was a
\* last entry and by a vertical bar and three spaces otherwise.
C20_LineShape ==
    WalkOk =>
        LET t     == Listing
            paths == LinePaths(t, Len(t))
        IN  /\ WellNested(t)
            /\ \A j \in 1..Len(t) :
                  /\ t[j].text = t[j].prefix \o t[j].connector \o t[j].name
                  /\ t[j].connector \in Connectors
                  /\ paths[j] \in DOMAIN fs
                  /\ (t[j].connector[1] = "BOX_L") <=> IsLastEntry(paths[j], t[j].name)
                  /\ t[j].prefix =
                        IF t[j].level = 1 THEN walk.prefix
                        ELSE t[ParentLine(t, j)].prefix \o
                                (IF t[ParentLine(t, j)].connector[1] = "BOX_L"
                                 THEN <<" ", " ", " ", " ">>
                                 ELSE <<"BOX_V", " ", " ", " ">>)

\* C20 witness: a directory that is not the last entry holds one entry, and
\* the call was given a prefix.
C20_Witness ==
    /\ WalkOk
    /\ walk.path = Root
    /\ walk.ret.out =
          <<">", " ", "BOX_T", "BOX_H", "BOX_H", " ", "B", "\n",
            ">", " ", "BOX_V", " ", " ", " ", "BOX_L", "BOX_H", "BOX_H", " ", "a", "\n",
            ">", " ", "BOX_L", "BOX_H", "BOX_H", " ", "a", "b", "\n">>

\* C21: no listed entry has a name that a rule matches, and none lies below
\* a directory whose name a rule matches, at any level and for any depth.
C21_IgnoredNeverListed ==
    WalkOk =>
        LET t     == Listing
            paths == LinePaths(t, Len(t))
        IN  \A j \in 1..Len(t) :
                /\ ~Hidden(t[j].name)
                /\ paths[j] \in DOMAIN fs
                /\ \A i \in 1..Len(NamesBelow(paths[j])) : ~Hidden(NamesBelow(paths[j])[i])

\* C21 witness: the rule B hid the directory B and the entry a inside it,
\* which matches no rule; the other entry was listed.
C21_Witness ==
    /\ WalkOk
    /\ walk.path = Root
    /\ walk.depth = None
    /\ walk.ignore = Some(<<<<"^", "\\", ".", ".", "*">>, <<"B">>>>)
    /\ exists(join(join(Root, <<"B">>), <<"a">>))
    /\ ~Hidden(<<"a">>)
    /\ exists(join(Root, <<"a">>))
    /\ Len(Listing) = 1
    /\ Listing[1].name = <<"a">>

\* The rules a walk ran with: the ignore argument, or the rules loaded for
\* the walked path when no argument was given.
RulesInForce ==
    IF walk.ignore.some THEN walk.ignore.val
    ELSE IF find_gitignore_patterns(walk.path).tag = "ok"
         THEN find_gitignore_patterns(walk.path).out
         ELSE <<>>

\* C22: no line of a listing stands for an entry whose path relative to the
\* walked directory is matched by a rule, at any nesting level.
C22_RootRelativePathHides ==
    WalkOk =>
        LET t     == Listing
            paths == LinePaths(t, Len(t))
            rules == RulesInForce
        IN  \A j \in 1..Len(t) : \A i \in 1..Len(rules) :
                ~is_match(rules[i], path_strip_prefix(paths[j], walk.path).val)

\* ---- reading the rules returned by parse_gitignore
ParsedOk == walk.called /\ walk.fn = "parse_gitignore" /\ walk.ret.tag = "ok"

\* The lines of the parsed file that are neither blank nor a comment once
\* trimmed, trimmed, in file order.
RECURSIVE PatternLinesOf(_)
PatternLinesOf(lines) ==
    IF lines = <<>> THEN <<>>
    ELSE (IF Trim(Head(lines)) = <<>> \/ Head(Trim(Head(lines))) = "#" THEN <<>>
          ELSE <<Trim(Head(lines))>>) \o PatternLinesOf(Tail(lines))

PatternLines == PatternLinesOf(Lines(fs[walk.path].content))

\* The name pattern of a line: the line without one leading "!" and without
\* one trailing "/".
GlobOf(line) ==
    LET plain == IF Head(line) = "!" THEN Tail(line) ELSE line
    IN  IF plain # <<>> /\ plain[Len(plain)] = "/"
        THEN SubSeq(plain, 1, Len(plain) - 1) ELSE plain

\* The pattern names the whole of name: "*" stands for any run of
\* characters, "?" for one character, any other character for itself.
RECURSIVE GlobMatch(_, _)
GlobMatch(glob, name) ==
    IF glob = <<>> THEN name = <<>>
    ELSE IF Head(glob) = "*"
    THEN \E n \in 0..Len(name) : GlobMatch(Tail(glob), Drop(name, n))
    ELSE /\ name # <<>>
         /\ Head(glob) = "?" \/ Head(glob) = Head(name)
         /\ GlobMatch(Tail(glob), Tail(name))

\* Names without a backslash.
PlainNames ==
    { <<"d", "e", "b", "u", "g", ".", "l", "o", "g">>,
      <<"e", "r", "r", "o", "r", ".", "l", "o", "g">>,
      <<"d", "e", "b", "u", "g", ".", "t", "x", "t">>,
      <<".", "l", "o", "g">>,
      <<".", "D", "S", "_", "S", "t", "o", "r", "e">>,
      <<"D", "S", "_", "S", "t", "o", "r", "e">>,
      <<"x", "D", "S", "_", "S", "t", "o", "r", "e">>,
      <<"a", ".", "b">>, <<"a", "x", "b">>, <<"a", "b">>, <<"a", "a">>, <<"a">>,
      <<"a", "?">>, <<"B">>, <<"B", "/">>, <<"!", "a", ".", "b">>, <<"a", "g">>,
      <<>> }

\* Names with a backslash in them.
BackslashNames ==
    { <<"a", "\\", ".", "b">>, <<"a", "\\", "x", "b">>, <<"a", "\\", "g">> }

\* C23: a rule matches a name exactly when its pattern names the whole of
\* it, with "*" for any run of characters, "?" for one character and every
\* other character for itself.
C23_PatternMatchesInFull ==
    (ParsedOk /\ Len(walk.ret.out) = Len(PatternLines)) =>
        LET rules == walk.ret.out
            lines == PatternLines
        IN  \A i \in 1..Len(rules) : \A n \in PlainNames \cup BackslashNames :
                is_match(rules[i], n) <=> GlobMatch(GlobOf(lines[i]), n)

\* C24: parsing yields one rule per line that is neither blank nor a comment
\* once trimmed, in file order, each rule hiding the names its line names
\* with a leading "!" and a trailing "/" left out.
C24_OneRulePerPatternLine ==
    ParsedOk =>
        LET rules == walk.ret.out
            lines == PatternLines
        IN  /\ Len(rules) = Len(lines)
            /\ \A i \in 1..Len(lines) : \A n \in PlainNames :
                   is_match(rules[i], n) <=> GlobMatch(GlobOf(lines[i]), n)

\* ---- loading the rules for a path
\* The path and the directories above it.
AncestorsOf(p) ==
    {p} \cup {SubSeq(p, 1, i - 1) : i \in {k \in 2..Len(p) : p[k] = "/"}}
        \cup (IF p # <<>> /\ p[1] = "/" THEN {<<"/">>} ELSE {<<>>})

\* The directory holds a .git directory or a .gitignore.
HasMarker(d) ==
    \/ join(d, DotGit) \in DOMAIN fs /\ fs[join(d, DotGit)].kind = "dir"
    \/ join(d, DotGitignore) \in DOMAIN fs

\* C25: find_gitignore_patterns returns no rule when neither the start path
\* nor a directory above it holds a .git directory or a .gitignore, whatever
\* the directory the process runs in holds.
C25_NoMarkerNoRules ==
    ( /\ walk.called
      /\ walk.fn = "find_gitignore_patterns"
      /\ \A d \in AncestorsOf(walk.path) : ~HasMarker(d) ) =>
        walk.ret = Ok(<<>>)

\* The .gitignore of the nearest marked directory at or above the walked
\* path exists and cannot be read.
GitignoreUnreadable ==
    \E d \in AncestorsOf(walk.path) :
        /\ HasMarker(d)
        /\ \A e \in AncestorsOf(walk.path) : HasMarker(e) => Len(e) <= Len(d)
        /\ join(d, DotGitignore) \in DOMAIN fs
        /\ ~fs[join(d, DotGitignore)].readable

\* C26: a listing asked for without rules, where the .gitignore of the
\* repository root cannot be read, ends with an I/O error and returns no
\* listing.
C26_UnreadableGitignoreIsError ==
    ( /\ walk.called
      /\ walk.fn = "generate_tree"
      /\ ~walk.ignore.some
      /\ GitignoreUnreadable ) =>
        /\ walk.ret.tag = "err"
        /\ walk.ret.error.kind = "Io"

\* C27: a walk whose starting directory can be listed returns a listing,
\* whatever cannot be read below it.
C27_OnlyRootIsFatal ==
    ( /\ walk.called
      /\ walk.fn = "generate_tree"
      /\ walk.path \in DOMAIN fs
      /\ fs[walk.path].kind = "dir"
      /\ fs[walk.path].readable ) =>
        walk.ret.tag = "ok"

\* C28: without a depth limit the lines of a listing are exactly the entries
\* below the walked directory, at whatever level, that no rule hides by
\* their own name or by the name of a directory above them, one line each.
C28_UnlimitedDepthListsAll ==
    (WalkOk /\ ~walk.depth.some) =>
        LET t       == Listing
            paths   == LinePaths(t, Len(t))
            visible == Visible(Cardinality(DOMAIN fs))
        IN  /\ {paths[j] : j \in 1..Len(t)} = visible
            /\ Len(t) = Cardinality(visible)

\* C28 witness: a chain three entries deep, walked without a limit under a
\* rule that hides none of them, gave three lines.
C28_Witness ==
    /\ WalkOk
    /\ walk.path = Root
    /\ ~walk.depth.some
    /\ walk.ignore = Some(<<<<"^", "a", "$">>>>)
    /\ \E p \in DOMAIN fs : Len(NamesBelow(p)) = 3 /\ p \in Visible(3)
    /\ Len(Listing) = 3

\* ---- the plan taken from a planning response
\* The commands of the lines that start with a command marker: the trimmed
\* text after the marker.
RECURSIVE MarkedCommands(_)
MarkedCommands(lines) ==
    IF lines = <<>> THEN <<>>
    ELSE (IF \/ StartsWith(Head(lines), <<"KOMANDO", ":">>)
             \/ StartsWith(Head(lines), <<"command", ":">>)
          THEN <<Trim(Drop(Head(lines), 2))>> ELSE <<>>)
         \o MarkedCommands(Tail(lines))

\* C29: the plan taken from a planning response is the commands of exactly
\* the lines that start with a command marker, each the trimmed text after
\* the marker with its further ":" kept; a line that holds the marker
\* elsewhere gives no command (without any marked line the plan is the whole
\* trimmed response).
C29_CommandsFromLinesStartingWithMarker ==
    (Running("ExecuteCommands") /\ PlanReceived) =>
        LET marked == MarkedCommands(Lines(last_response.choices[1]))
        IN  context.plan = IF marked = <<>> THEN <<Trim(last_response.choices[1])>>
                           ELSE marked

\* ---- the results an answer is made from
\* The number of command headings in a request text.
Headings(content) == Cardinality({i \in 1..Len(content) : content[i] = "HEADING"})

\* C30: when an answer is about to be asked for, command_results holds one
\* pair for each command of the current plan, in plan order, and nothing
\* from an iteration before; the answer request carries exactly as many
\* command results as the plan has commands.
C30_ResultsOfCurrentIterationOnly ==
    /\ Running("CreateAnswer") =>
          /\ Len(context.command_results) = Len(context.plan)
          /\ \A i \in 1..Len(context.plan) :
                 context.command_results[i][1] = context.plan[i]
    /\ (last_request.step = "CreateAnswer") =>
          /\ last_request.content = answer_request(context)
          /\ Headings(last_request.content) = Len(context.plan)

\* C30 witness: in the second iteration an answer was asked for with the two
\* results of that iteration's plan, after a first iteration that had
\* gathered results of its own.
C30_Witness ==
    /\ iteration_count = 2
    /\ last_request.step = "CreateAnswer"
    /\ Len(context.plan) = 2
    /\ Headings(last_request.content) = 2

\* ---- the preview of a command's output
\* The command can be carried out: a file read of a readable regular file,
\* or a listing of a directory whose entries can be listed.
Runnable(command) ==
    \/ /\ StartsWith(command, <<"show_file", " ">>)
       /\ Drop(command, 2) \in DOMAIN fs
       /\ fs[Drop(command, 2)].kind = "file"
       /\ fs[Drop(command, 2)].readable
    \/ /\ StartsWith(command, <<"tree", " ">>)
       /\ Drop(command, 2) \in DOMAIN fs
       /\ fs[Drop(command, 2)].kind = "dir"
       /\ fs[Drop(command, 2)].readable

\* C31: the Executing step never ends the session at a command that can be
\* carried out, whatever the length and the content of its output: the
\* output is recorded and the next command runs.
C31_PreviewNeverAborts ==
    ExecutingFailed => ~Runnable(FailingCommand)

\* ---- the nesting of a walk
\* The directory the call at place k of the nesting is listing.
Listed(k) == resolve(frames[k].path).val

====
